---- MODULE Spec2Model ----
(***************************************************************************)
(* Breadth-first discovery crawlers of the Knowledge_Base_Demo repository: *)
(*   SimpleBFSCrawler.discover_pdfs_bfs            (test_bfs_crawler.py)    *)
(*   ComprehensivePDFDiscovery.test_single_payer   (comprehensive_pdf_...)  *)
(*   RegionalEnhancedCrawler.discover_regional_content_bfs                  *)
(*   quick_payer_test                              (quick_discovery_demo)   *)
(*                                                                         *)
(* Text is modelled as a sequence of tokens.  A URL is the sequence of its *)
(* host labels, then "/" and path segments, e.g. https://x.t/manual.pdf is *)
(* <<"x","t","/","manual",".pdf">>.  Python's `a in b` on strings becomes  *)
(* the occurrence of a token sequence inside another (Contains).           *)
(***************************************************************************)
EXTENDS Integers, Sequences, FiniteSets, TLC

(* ------------------------------ bounds -------------------------------- *)
\* the URL budget of a crawl: stands for the literals 50 (SimpleBFSCrawler,
\* RegionalEnhancedCrawler) and 15 (quick_payer_test) and is the largest
\* max_urls_per_payer given to ComprehensivePDFDiscovery
UrlBudget == 2
\* largest max_depth a caller passes
MaxDepthArg == 1
\* links on one fetched page
MaxLinks == 1

(* --------------------------- text helpers ----------------------------- *)
\* str.lower() on the tokens of the model's vocabulary
Lower(tok) ==
    CASE tok = "Provider" -> "provider"
      [] tok = "Manual"   -> "manual"
      [] tok = "California" -> "california"
      [] tok = "Medicaid" -> "medicaid"
      [] tok = ".PDF"     -> ".pdf"
      [] OTHER            -> tok

LowerSeq(s) == [i \in 1..Len(s) |-> Lower(s[i])]

\* the tokens of the vocabulary that hold another one as a substring
Superstrings ==
    { <<"providers", "provider">>, <<"forms", "form">>, <<"states", "state">>,
      <<"regions", "region">>, <<"areas", "area">>, <<"documents", "document">> }

\* character-level containment between single tokens of the vocabulary
TokHas(tok, kw) == tok = kw \/ <<tok, kw>> \in Superstrings

\* Python `needle in hay` for strings
Contains(hay, needle) ==
    \E i \in 0..(Len(hay) - Len(needle)) :
        \A j \in 1..Len(needle) : TokHas(hay[i + j], needle[j])

\* urlparse(url).netloc: the labels before the first "/"
Netloc(url) ==
    IF \E i \in 1..Len(url) : url[i] = "/"
    THEN LET first == CHOOSE i \in 1..Len(url) :
                          /\ url[i] = "/"
                          /\ \A j \in 1..(i - 1) : url[j] # "/"
         IN SubSeq(url, 1, first - 1)
    ELSE url

\* urljoin(base, href): an href that starts with "/" is resolved against the
\* host of the page, an absolute href is kept
UrlJoin(base, href) ==
    IF Len(href) > 0 /\ href[1] = "/" THEN Netloc(base) \o href ELSE href

\* any(domain in parsed.netloc for domain in allowed_domains)
DomainAllowed(url, allowed) ==
    \E d \in allowed : Contains(Netloc(url), d)

\* no URL is taken for a PDF
is_pdf_url_never(url) == FALSE

\* is_pdf_url: url.lower().endswith('.pdf') or '.pdf' in url.lower()
is_pdf_url(url) ==
    LET u == LowerSeq(url) IN
    \/ (Len(u) > 0 /\ u[Len(u)] = ".pdf")
    \/ Contains(u, <<".pdf">>)

(* ----------------------- relevance classifiers ------------------------ *)
\* combined = f"{text_lower} {href_lower}"
Combined(text, href) == LowerSeq(text) \o <<" ">> \o LowerSeq(href)

SimpleKeywords ==
    { <<"provider">>, <<"manual">>, <<"guide">>, <<"policy">>, <<"procedure">>,
      <<"prior", " ", "auth">>, <<"authorization">>, <<"timely", " ", "filing">>,
      <<"appeals">>, <<"claims">>, <<"billing">>, <<"coverage">>, <<"benefits">>,
      <<"forms">> }

\* SimpleBFSCrawler.is_relevant_link
is_relevant_link(text, href) ==
    \E kw \in SimpleKeywords : Contains(Combined(text, href), kw)

CompKeywords ==
    SimpleKeywords \cup { <<"documents">>, <<"resources">>, <<"tools">>, <<"materials">> }

\* ComprehensivePDFDiscovery.is_relevant_link
comp_is_relevant_link(text, href) ==
    \E kw \in CompKeywords : Contains(Combined(text, href), kw)

QuickKeywords == { <<"provider">>, <<"manual">>, <<"guide">>, <<"form">>, <<"document">> }

\* quick_payer_test: any(keyword in text for keyword in [...]), text lowered
quick_is_relevant(text) ==
    \E kw \in QuickKeywords : Contains(LowerSeq(text), kw)

(* --------------------- regional crawler: tables ----------------------- *)
\* self.us_states.items(); every use in the source lowers the name, so the names are
\* kept in lower case, one token per word
us_states_items ==
    <<
       <<"AL", <<"alabama">>>>, <<"AK", <<"alaska">>>>, <<"AZ", <<"arizona">>>>,
       <<"AR", <<"arkansas">>>>, <<"CA", <<"california">>>>, <<"CO", <<"colorado">>>>,
       <<"CT", <<"connecticut">>>>, <<"DE", <<"delaware">>>>, <<"FL", <<"florida">>>>,
       <<"GA", <<"georgia">>>>, <<"HI", <<"hawaii">>>>, <<"ID", <<"idaho">>>>,
       <<"IL", <<"illinois">>>>, <<"IN", <<"indiana">>>>, <<"IA", <<"iowa">>>>,
       <<"KS", <<"kansas">>>>, <<"KY", <<"kentucky">>>>, <<"LA", <<"louisiana">>>>,
       <<"ME", <<"maine">>>>, <<"MD", <<"maryland">>>>, <<"MA", <<"massachusetts">>>>,
       <<"MI", <<"michigan">>>>, <<"MN", <<"minnesota">>>>, <<"MS", <<"mississippi">>>>,
       <<"MO", <<"missouri">>>>, <<"MT", <<"montana">>>>, <<"NE", <<"nebraska">>>>,
       <<"NV", <<"nevada">>>>, <<"NH", <<"new", " ", "hampshire">>>>, <<"NJ", <<"new", " ", "jersey">>>>,
       <<"NM", <<"new", " ", "mexico">>>>, <<"NY", <<"new", " ", "york">>>>, <<"NC", <<"north", " ", "carolina">>>>,
       <<"ND", <<"north", " ", "dakota">>>>, <<"OH", <<"ohio">>>>, <<"OK", <<"oklahoma">>>>,
       <<"OR", <<"oregon">>>>, <<"PA", <<"pennsylvania">>>>, <<"RI", <<"rhode", " ", "island">>>>,
       <<"SC", <<"south", " ", "carolina">>>>, <<"SD", <<"south", " ", "dakota">>>>, <<"TN", <<"tennessee">>>>,
       <<"TX", <<"texas">>>>, <<"UT", <<"utah">>>>, <<"VT", <<"vermont">>>>,
       <<"VA", <<"virginia">>>>, <<"WA", <<"washington">>>>, <<"WV", <<"west", " ", "virginia">>>>,
       <<"WI", <<"wisconsin">>>>, <<"WY", <<"wyoming">>>>, <<"DC", <<"district", " ", "of", " ", "columbia">>>>
    >>

\* self.us_states[code]
us_states ==
    [c \in {us_states_items[i][1] : i \in 1..Len(us_states_items)} |->
        (CHOOSE it \in {us_states_items[i] : i \in 1..Len(us_states_items)} : it[1] = c)[2]]

\* self.us_states.values()
us_states_values == [i \in 1..Len(us_states_items) |-> us_states_items[i][2]]

\* state_code.lower()
CodeLower(code) ==
    CASE code = "CA" -> "ca" [] code = "TX" -> "tx" [] code = "FL" -> "fl"
      [] code = "NY" -> "ny" [] code = "PA" -> "pa" [] code = "IL" -> "il"
      [] code = "OH" -> "oh" [] code = "GA" -> "ga" [] code = "NC" -> "nc"
      [] code = "MI" -> "mi" [] OTHER -> code

\* self.regional_keywords
regional_keywords ==
    { <<"state", " ", "specific">>, <<"state", "-", "specific">>, <<"by", " ", "state">>,
      <<"regional">>, <<"medicaid">>, <<"medicare">>, <<"state", " ", "plan">>,
      <<"local", " ", "coverage">>, <<"geographic">>, <<"territory">>, <<"area">>,
      <<"zone">> }

\* tokens of the vocabulary that are two lower-case letters, for r'/[a-z]{2}/'
TwoLetter(tok) == tok \in {"ca", "tx", "fl", "ny", "pa", "il", "oh", "ga", "nc", "mi"}

\* any(re.search(pattern, url_lower) for pattern in self.regional_url_indicators);
\* r'/[A-Z]{2}[_-]' can not match a lowered URL and contributes nothing
RegionalUrlPattern(url_lower) ==
    \/ \E w \in {"state", "states", "region", "regions", "area", "areas",
                 "local", "geographic"} : Contains(url_lower, <<"/", w, "/">>)
    \/ \E i \in 1..(Len(url_lower) - 2) :
           url_lower[i] = "/" /\ TwoLetter(url_lower[i + 1]) /\ url_lower[i + 2] = "/"
    \/ Contains(url_lower, <<"medicaid">>)
    \/ Contains(url_lower, <<"medicare">>)
    \/ Contains(url_lower, <<"state", "-", "specific">>)
    \/ Contains(url_lower, <<"state", "_", "specific">>)

high_value_terms ==
    { <<"provider", " ", "portal">>, <<"state", " ", "portal">>,
      <<"select", " ", "your", " ", "state">>, <<"choose", " ", "state">>,
      <<"by", " ", "location">> }

Min(a, b) == IF a < b THEN a ELSE b

\* RegionalEnhancedCrawler.score_regional_relevance
score_regional_relevance(url, text) ==
    LET url_lower  == LowerSeq(url)
        text_lower == LowerSeq(text)
        state_mentions ==
            Cardinality({i \in 1..Len(us_states_items) :
                            Contains(text_lower, us_states_values[i])})
    IN (IF RegionalUrlPattern(url_lower) THEN 5 ELSE 0)
       + 2 * Cardinality({kw \in regional_keywords : Contains(text_lower, kw)})
       + Min(state_mentions, 10)
       + 3 * Cardinality({t \in high_value_terms : Contains(text_lower, t)})

(* ------------- regional crawler: state-specific candidates ------------ *)
\* netloc.replace('www.', '').replace('provider.', '').replace('providers.', '')
\* on the labels of a host: a label followed by a dot is any label but the last
BaseDomainOf(netloc) ==
    LET keep(i) == \/ i = Len(netloc)
                   \/ netloc[i] \notin {"www", "provider", "providers"}
        F[i \in 0..Len(netloc)] ==
            IF i = 0 THEN <<>>
            ELSE IF keep(i) THEN Append(F[i - 1], netloc[i]) ELSE F[i - 1]
    IN F[Len(netloc)]

priority_states == <<"CA", "TX", "FL", "NY", "PA", "IL", "OH", "GA", "NC", "MI">>

NumPatterns == 8

\* patterns[n].format(state=st) of generate_state_specific_urls
StatePattern(n, base_domain, st) ==
    CASE n = 1 -> <<"www">> \o base_domain \o <<"/", "providers", "/">> \o st \o <<"/">>
      [] n = 2 -> <<"provider">> \o base_domain \o <<"/">> \o st \o <<"/">>
      [] n = 3 -> <<"providers">> \o base_domain \o <<"/">> \o st \o <<"/">>
      [] n = 4 -> <<"www">> \o base_domain \o <<"/", "state", "/">> \o st \o <<"/">>
      [] n = 5 -> <<"www">> \o base_domain \o <<"/", "regional", "/">> \o st \o <<"/">>
      [] n = 6 -> <<"www">> \o base_domain \o <<"/">> \o st \o <<"/", "providers", "/">>
      [] n = 7 -> <<"www">> \o base_domain \o <<"/", "medicaid", "/">> \o st \o <<"/">>
      [] n = 8 -> <<"www">> \o base_domain \o <<"/", "medicare", "/">> \o st \o <<"/">>

\* state_name.lower().replace(' ', '-')
NameSegment(code) ==
    [i \in 1..Len(us_states[code]) |->
        IF us_states[code][i] = " " THEN "-" ELSE us_states[code][i]]

\* the number of candidates generate_state_specific_urls returns
NumStateUrls == Len(priority_states) * NumPatterns * 2

\* RegionalEnhancedCrawler.generate_state_specific_urls: for every priority
\* state, for every pattern, the URL with the state code, then with the name
generate_state_specific_urls(base_domain) ==
    [k \in 1..NumStateUrls |->
        LET code == priority_states[((k - 1) \div (NumPatterns * 2)) + 1]
            n    == (((k - 1) % (NumPatterns * 2)) \div 2) + 1
        IN IF (k - 1) % 2 = 0
           THEN StatePattern(n, base_domain, <<CodeLower(code)>>)
           ELSE StatePattern(n, base_domain, NameSegment(code))]

\* state_urls[:20]
StateUrlLimit == 20

Prefix(s, n) == SubSeq(s, 1, Min(n, Len(s)))

(* ----------------------------- the inputs ----------------------------- *)
BaseDomain == <<"uhc", "com">>
Home == <<"www", "uhc", "com", "/">>
Prov == <<"www", "uhc", "com", "/", "providers", "/", "ca", "/">>
\* a known provider portal on another domain than the payer's base domain
Ext  == <<"www", "uhcprovider", "com", "/">>

SeedLists == { <<>>, <<Home>>, <<Home, Prov>>, <<Ext>> }

AllowedLists == { {BaseDomain}, {} }

\* anchors a fetched page can carry: [text, href]
Links ==
    { [text |-> <<"click", " ", "here">>, href |-> <<"/", "other", "/">>],
      [text |-> <<"Provider", " ", "Manual">>, href |-> <<"/", "manual", ".pdf">>],
      [text |-> <<"California", " ", "Medicaid", " ", "Provider", " ", "Manual">>,
       href |-> <<"/", "providers", "/", "ca", "/">>],
      [text |-> <<"California", " ", "Medicaid", " ", "Provider", " ", "Manual">>,
       href |-> <<"/">>],
      [text |-> <<"Provider", " ", "Manual">>,
       href |-> <<"www", "uhcprovider", "com", "/", "guide", ".pdf">>] }

\* soup.find_all('a', href=True) of a fetched page, in document order
PageLinks == UNION { [1..n -> Links] : n \in 0..MaxLinks }

Kinds == {"simple", "comprehensive", "regional", "quick"}

\* seconds by which the clock can differ between two readings
TickSteps == {60}

\* the crawls test_regional_enhanced_discovery runs on one crawler object
NumTestCases == 2

\* the literal of `depth > 1` in quick_payer_test
QuickDepth == 1
\* links[:100] in quick_payer_test
QuickLinkLimit == 100

(* ------------------------------ the state ----------------------------- *)
VARIABLES
    kind,               \* which crawler the object is
    max_depth,          \* self.max_depth
    max_urls_per_payer, \* self.max_urls_per_payer (ComprehensivePDFDiscovery)
    crawls,             \* crawls started on this object so far
    pc,                 \* "idle" | "loop" | "fetch" | "done" | "aborted" |
                        \* "closed" | "raised" (the constructor raised)
    starting_urls,      \* argument of the current crawl
    allowed_domains,    \* argument of the current crawl
    max_time_seconds,   \* time limit of the current crawl, 0 if it has none
    elapsed,            \* time.time() - start_time
    queue,              \* deque of (url, depth) or (url, depth, regional_score)
    visited_urls,       \* self.visited_urls, or the local set of the crawl
    urls_processed,     \* counter of discover_regional_content_bfs
    pdfs_found,         \* set of PDFs (pdfs_found / pdfs_discovered)
    all_pdfs,           \* list of PDFs of discover_regional_content_bfs
    all_links_found,    \* list of SimpleBFSCrawler.discover_pdfs_bfs
    cur,                \* the task popped and being fetched, or <<>>
    result,             \* <<>> or <<the value returned to the caller>>
    fetch_log,          \* the (url, depth) of every driver.get of this crawl
    failed,             \* URLs whose fetch raised in this crawl
    doc_log,            \* (pdf url, depth of its source page) of this crawl
    driver,             \* the browser session: "none" | "open" | "quit"
    call,               \* <<>> or <<the arguments of a helper being applied>>
    ret,                \* <<>> or <<the value the helper returned>>
    slept               \* time.sleep has run since the last driver.get of
                        \* the running crawl (TRUE while it has made none
                        \* and while no crawl runs)

vars == <<kind, max_depth, max_urls_per_payer, crawls, pc, starting_urls,
          allowed_domains, max_time_seconds, elapsed, queue, visited_urls,
          urls_processed, pdfs_found, all_pdfs, all_links_found, cur, result,
          fetch_log, failed, doc_log, driver, call, ret, slept>>

fn_vars == <<call, ret>>

config == <<kind, max_depth, max_urls_per_payer>>

\* state after construction of the crawler object: setup_webdriver has
\* started the browser; the constructor of ComprehensivePDFDiscovery then loads
\* the CSV file and raises if that fails. quick_payer_test has no object, it
\* starts its browser in every call.
Init ==
    /\ kind \in Kinds
    /\ max_depth \in (IF kind = "quick" THEN {QuickDepth} ELSE 0..MaxDepthArg)
    /\ max_urls_per_payer \in (IF kind = "comprehensive" THEN 1..UrlBudget ELSE {0})
    /\ crawls = 0
    /\ pc \in (IF kind = "comprehensive" THEN {"idle", "raised"} ELSE {"idle"})
    /\ driver = (IF kind = "quick" THEN "none" ELSE "open")
    /\ call = <<>>
    /\ ret = <<>>
    /\ slept = TRUE
    /\ starting_urls = <<>>
    /\ allowed_domains = {}
    /\ max_time_seconds = 0
    /\ elapsed = 0
    /\ queue = <<>>
    /\ visited_urls = {}
    /\ urls_processed = 0
    /\ pdfs_found = {}
    /\ all_pdfs = <<>>
    /\ all_links_found = <<>>
    /\ cur = <<>>
    /\ result = <<>>
    /\ fetch_log = <<>>
    /\ failed = {}
    /\ doc_log = {}

(* --------------------------- starting a crawl ------------------------- *)
\* deque([(url, 0) for url in start_urls])
SeedQueue(urls) == [i \in 1..Len(urls) |-> <<urls[i], 0>>]

\* deque([(url, 0, 0) for url in starting_urls])
RegionalSeedQueue(urls) == [i \in 1..Len(urls) |-> <<urls[i], 0, 0>>]

\* the state-specific tasks appended when starting_urls is not empty:
\* state_urls[:20], each at depth 1 with score 5
RegionalStateTasks(urls) ==
    IF urls # <<>>
    THEN LET state_urls ==
                 generate_state_specific_urls(BaseDomainOf(Netloc(urls[1])))
         IN [i \in 1..Min(StateUrlLimit, NumStateUrls) |-> <<state_urls[i], 1, 5>>]
    ELSE <<>>

CanStart == pc \in {"idle", "done"} /\ crawls < NumTestCases

NewCrawl ==
    /\ crawls' = crawls + 1
    /\ elapsed' = 0
    /\ cur' = <<>>
    /\ result' = <<>>
    /\ fetch_log' = <<>>
    /\ failed' = {}
    /\ doc_log' = {}
    /\ slept' = TRUE
    /\ UNCHANGED <<config, fn_vars>>

\* SimpleBFSCrawler.discover_pdfs_bfs up to the loop
StartSimple(urls, allowed) ==
    /\ CanStart /\ kind = "simple"
    /\ NewCrawl
    /\ starting_urls' = urls
    /\ allowed_domains' = allowed
    /\ max_time_seconds' = 0
    /\ queue' = SeedQueue(urls)
    /\ all_links_found' = <<>>
    /\ pdfs_found' = {}
    /\ pc' = "loop"
    /\ UNCHANGED <<visited_urls, urls_processed, all_pdfs, driver>>

\* allowed_domains of test_single_payer
CompAllowedDomains(base_domain) ==
    {base_domain}
    \cup (IF base_domain[1] # "www" THEN {<<"www">> \o base_domain} ELSE {})
    \cup {<<sub>> \o base_domain :
              sub \in {"provider", "providers", "professional", "portal", "prov"}}

\* test_single_payer with a non-empty portal list, then discover_pdfs_bfs up
\* to the loop
StartComprehensive(portal_urls, time_limit_minutes) ==
    /\ CanStart /\ kind = "comprehensive"
    /\ portal_urls # <<>>
    /\ NewCrawl
    /\ starting_urls' = portal_urls
    /\ allowed_domains' = CompAllowedDomains(BaseDomain)
    /\ max_time_seconds' = time_limit_minutes * 60
    /\ queue' = SeedQueue(portal_urls)
    /\ visited_urls' = {}
    /\ pdfs_found' = {}
    /\ pc' = "loop"
    /\ UNCHANGED <<urls_processed, all_pdfs, all_links_found, driver>>

\* test_single_payer when discover_provider_portals found nothing
CompNoPortals ==
    /\ CanStart /\ kind = "comprehensive"
    /\ crawls' = crawls + 1
    /\ elapsed' = 0
    /\ cur' = <<>>
    /\ fetch_log' = <<>>
    /\ failed' = {}
    /\ doc_log' = {}
    /\ slept' = TRUE
    /\ UNCHANGED <<config, fn_vars, driver>>
    /\ starting_urls' = <<>>
    /\ result' = <<[error |-> "No portal URLs found"]>>
    /\ pc' = "done"
    /\ UNCHANGED <<allowed_domains, max_time_seconds, queue, visited_urls,
                   urls_processed, pdfs_found, all_pdfs, all_links_found>>

\* discover_regional_content_bfs up to the loop
StartRegional(urls, allowed, max_time_minutes) ==
    /\ CanStart /\ kind = "regional"
    /\ NewCrawl
    /\ starting_urls' = urls
    /\ allowed_domains' = allowed
    /\ max_time_seconds' = max_time_minutes * 60
    /\ queue' = RegionalSeedQueue(urls) \o RegionalStateTasks(urls)
    /\ all_pdfs' = <<>>
    /\ urls_processed' = 0
    /\ pc' = "loop"
    /\ UNCHANGED <<visited_urls, pdfs_found, all_links_found, driver>>

\* common_portals of quick_payer_test
common_portals(base_domain) ==
    << <<"provider">> \o base_domain \o <<"/">>,
       <<"providers">> \o base_domain \o <<"/">>,
       <<"www">> \o base_domain \o <<"/", "provider", "/">>,
       <<"www">> \o base_domain \o <<"/", "providers", "/">> >>

\* starting_urls of quick_payer_test: the known portal, the first common
\* portal whose HEAD check succeeds (working = 0: none), else the home page
QuickStartingUrls(known_portal, working) ==
    LET known == IF known_portal # <<>> THEN <<known_portal>> ELSE <<>>
        found == IF working > 0 THEN <<common_portals(BaseDomain)[working]>> ELSE <<>>
    IN IF known \o found # <<>> THEN known \o found
       ELSE << <<"www">> \o BaseDomain \o <<"/">> >>

\* quick_payer_test up to the loop
StartQuick(known_portal, working, limit) ==
    /\ CanStart /\ kind = "quick"
    /\ NewCrawl
    /\ starting_urls' = QuickStartingUrls(known_portal, working)
    /\ allowed_domains' = { BaseDomain, <<"www">> \o BaseDomain,
                            <<"provider">> \o BaseDomain, <<"providers">> \o BaseDomain }
    /\ max_time_seconds' = limit
    /\ queue' = SeedQueue(Prefix(starting_urls', 1))
    /\ visited_urls' = {}
    /\ pdfs_found' = {}
    /\ driver' = "open"
    /\ pc' = "loop"
    /\ UNCHANGED <<urls_processed, all_pdfs, all_links_found>>

(* ------------------------------ the loop ------------------------------ *)
\* the `while` condition of each crawler
SimpleLoopCond == queue # <<>> /\ Cardinality(visited_urls) < UrlBudget

CompLoopCond == queue # <<>> /\ Cardinality(visited_urls) < max_urls_per_payer

\* the budget compared with <= instead of <
RegionalLoopCond_le ==
    queue # <<>> /\ urls_processed <= UrlBudget /\ elapsed < max_time_seconds

RegionalLoopCond ==
    queue # <<>> /\ urls_processed < UrlBudget /\ elapsed < max_time_seconds

QuickLoopCond ==
    queue # <<>> /\ elapsed < max_time_seconds /\ Cardinality(visited_urls) < UrlBudget

LoopCond ==
    CASE kind = "simple"        -> SimpleLoopCond
      [] kind = "comprehensive" -> CompLoopCond
      [] kind = "regional"      -> RegionalLoopCond
      [] kind = "quick"         -> QuickLoopCond

\* the skip test without the visited-set membership
SkipCond_nodedup(task) == task[2] > max_depth

\* the skip test without the depth comparison
SkipCond_nodepth(task) == task[1] \in visited_urls

\* if current_url in visited or depth > max_depth: continue
SkipCond(task) == task[1] \in visited_urls \/ task[2] > max_depth

\* the head of the deque is read but not removed
PopLeft_peek(q) == q

\* queue.popleft() leaves the rest of the deque
PopLeft(q) == Tail(q)

\* the dropped task is counted and recorded like a visited one
Discard_counted ==
    /\ pc = "loop" /\ LoopCond
    /\ SkipCond(Head(queue))
    /\ queue' = PopLeft(queue)
    /\ visited_urls' = visited_urls \cup {Head(queue)[1]}
    /\ urls_processed' = urls_processed + 1
    /\ UNCHANGED <<config, crawls, pc, starting_urls, allowed_domains,
                   max_time_seconds, elapsed,
                   pdfs_found, all_pdfs, all_links_found, cur, result,
                   fetch_log, failed, doc_log, driver,
                   fn_vars, slept>>

\* the popped task is dropped
Discard ==
    /\ pc = "loop" /\ LoopCond
    /\ SkipCond(Head(queue))
    /\ queue' = PopLeft(queue)
    /\ UNCHANGED <<config, crawls, pc, starting_urls, allowed_domains,
                   max_time_seconds, elapsed, visited_urls, urls_processed,
                   pdfs_found, all_pdfs, all_links_found, cur, result,
                   fetch_log, failed, doc_log, driver,
                   fn_vars, slept>>

\* the regional crawler checks the domain of the popped URL after it has
\* recorded it
RegionalDomainOk(url) == kind = "regional" => DomainAllowed(url, allowed_domains)

\* the popped task is recorded as visited and goes on to the fetch
Visit ==
    /\ pc = "loop" /\ LoopCond
    /\ ~SkipCond(Head(queue))
    /\ RegionalDomainOk(Head(queue)[1])
    /\ queue' = PopLeft(queue)
    /\ visited_urls' = visited_urls \cup {Head(queue)[1]}
    /\ urls_processed' = IF kind = "regional" THEN urls_processed + 1 ELSE urls_processed
    /\ cur' = Head(queue)
    /\ pc' = "fetch"
    /\ UNCHANGED <<config, crawls, starting_urls, allowed_domains,
                   max_time_seconds, elapsed, pdfs_found, all_pdfs,
                   all_links_found, result, fetch_log, failed, doc_log, driver,
                   fn_vars, slept>>

\* regional crawler: the popped URL is recorded, counted and then dropped
\* because its host matches no allowed domain
DomainSkip ==
    /\ pc = "loop" /\ LoopCond
    /\ ~SkipCond(Head(queue))
    /\ ~RegionalDomainOk(Head(queue)[1])
    /\ queue' = PopLeft(queue)
    /\ visited_urls' = visited_urls \cup {Head(queue)[1]}
    /\ urls_processed' = urls_processed + 1
    /\ UNCHANGED <<config, crawls, pc, starting_urls, allowed_domains,
                   max_time_seconds, elapsed, pdfs_found, all_pdfs,
                   all_links_found, cur, result, fetch_log, failed, doc_log, driver,
                   fn_vars, slept>>

\* a failed URL is forgotten and put back on the frontier
FetchFail_requeue ==
    /\ pc = "fetch"
    /\ fetch_log' = Append(fetch_log, <<cur[1], cur[2]>>)
    /\ failed' = failed \cup {cur[1]}
    /\ queue' = Append(queue, cur)
    /\ visited_urls' = visited_urls \ {cur[1]}
    /\ cur' = <<>>
    /\ slept' \in BOOLEAN
    /\ pc' = "loop"
    /\ UNCHANGED <<config, crawls, starting_urls, allowed_domains,
                   max_time_seconds, elapsed, urls_processed, pdfs_found,
                   all_pdfs, all_links_found, result, doc_log, driver,
                   fn_vars>>

\* driver.get raises (before the sleep) or the wait for the body raises (after
\* it); the except clause logs and continues
FetchFail ==
    /\ pc = "fetch"
    /\ fetch_log' = Append(fetch_log, <<cur[1], cur[2]>>)
    /\ failed' = failed \cup {cur[1]}
    /\ cur' = <<>>
    /\ slept' \in BOOLEAN
    /\ pc' = "loop"
    /\ UNCHANGED <<config, crawls, starting_urls, allowed_domains,
                   max_time_seconds, elapsed, queue, visited_urls,
                   urls_processed, pdfs_found, all_pdfs, all_links_found,
                   result, doc_log, driver,
                   fn_vars>>

\* the new task is put at the head of the deque
Enqueue_front(q, task) == <<task>> \o q

\* queue.append(task)
Enqueue(q, task) == Append(q, task)

(* what the body of `for link in links` does to the collections *)
Acc == [queue |-> queue, pdfs_found |-> pdfs_found, all_pdfs |-> all_pdfs,
        all_links_found |-> all_links_found, doc_log |-> doc_log]

SimpleLink(acc, link, task) ==
    LET absolute_url == UrlJoin(task[1], link.href)
        relevant == is_relevant_link(link.text, link.href)
        recorded == IF relevant
                    THEN [acc EXCEPT !.all_links_found =
                              Append(@, [url |-> absolute_url, text |-> link.text,
                                         depth |-> task[2], parent |-> task[1]])]
                    ELSE acc
    IN IF ~DomainAllowed(absolute_url, allowed_domains) THEN acc
       ELSE IF is_pdf_url(absolute_url)
            THEN [recorded EXCEPT !.pdfs_found = @ \cup {absolute_url},
                                  !.doc_log = @ \cup {<<absolute_url, task[2]>>}]
       ELSE IF relevant /\ task[2] < max_depth /\ absolute_url \notin visited_urls
            THEN [recorded EXCEPT !.queue = Enqueue(@, <<absolute_url, task[2] + 1>>)]
       ELSE recorded

CompLink(acc, link, task) ==
    LET absolute_url == UrlJoin(task[1], link.href) IN
    IF ~DomainAllowed(absolute_url, allowed_domains) THEN acc
    ELSE IF is_pdf_url(absolute_url)
         THEN [acc EXCEPT !.pdfs_found = @ \cup {absolute_url},
                          !.doc_log = @ \cup {<<absolute_url, task[2]>>}]
    ELSE IF /\ comp_is_relevant_link(link.text, link.href)
            /\ task[2] < max_depth
            /\ absolute_url \notin visited_urls
         THEN [acc EXCEPT !.queue = Enqueue(@, <<absolute_url, task[2] + 1>>)]
    ELSE acc

RegionalLink(acc, link, task) ==
    LET absolute_url == UrlJoin(task[1], link.href)
        link_text == LowerSeq(link.text)
        link_regional_score == score_regional_relevance(absolute_url, link_text)
    IN IF ~DomainAllowed(absolute_url, allowed_domains) THEN acc
       ELSE IF is_pdf_url(absolute_url)
            THEN [acc EXCEPT !.all_pdfs = Append(@, absolute_url),
                             !.doc_log = @ \cup {<<absolute_url, task[2]>>}]
       ELSE IF /\ link_regional_score >= 3
               /\ task[2] < max_depth
               /\ absolute_url \notin visited_urls
            THEN [acc EXCEPT !.queue =
                      Enqueue(@, <<absolute_url, task[2] + 1, link_regional_score>>)]
       ELSE acc

QuickLink(acc, link, task) ==
    LET absolute_url == UrlJoin(task[1], link.href) IN
    IF ~DomainAllowed(absolute_url, allowed_domains) THEN acc
    ELSE IF is_pdf_url(absolute_url)
         THEN [acc EXCEPT !.pdfs_found = @ \cup {absolute_url},
                          !.doc_log = @ \cup {<<absolute_url, task[2]>>}]
    ELSE IF quick_is_relevant(link.text) /\ task[2] = 0
         THEN [acc EXCEPT !.queue = Enqueue(@, <<absolute_url, task[2] + 1>>)]
    ELSE acc

LinkStep(acc, link, task) ==
    CASE kind = "simple"        -> SimpleLink(acc, link, task)
      [] kind = "comprehensive" -> CompLink(acc, link, task)
      [] kind = "regional"      -> RegionalLink(acc, link, task)
      [] kind = "quick"         -> QuickLink(acc, link, task)

\* for link in links: ... in document order
ProcessLinks(links, task) ==
    LET F[i \in 0..Len(links)] ==
            IF i = 0 THEN Acc ELSE LinkStep(F[i - 1], links[i], task)
    IN F[Len(links)]

\* the page loads; its anchors are processed
FetchOK(links) ==
    /\ pc = "fetch"
    /\ fetch_log' = Append(fetch_log, <<cur[1], cur[2]>>)
    /\ \E acc \in {ProcessLinks(IF kind = "quick" THEN Prefix(links, QuickLinkLimit)
                                 ELSE links, cur)} :
          /\ queue' = acc.queue
          /\ pdfs_found' = acc.pdfs_found
          /\ all_pdfs' = acc.all_pdfs
          /\ all_links_found' = acc.all_links_found
          /\ doc_log' = acc.doc_log
    /\ cur' = <<>>
    /\ slept' = TRUE
    /\ pc' = "loop"
    /\ UNCHANGED <<config, crawls, starting_urls, allowed_domains,
                   max_time_seconds, elapsed, visited_urls, urls_processed,
                   result, failed, driver, fn_vars>>

\* list(a_set): every element once; the order is the set's iteration order,
\* which the model fixes to one enumeration
ListOf(S) ==
    CHOOSE f \in [1..Cardinality(S) -> S] : \A i, j \in 1..Cardinality(S) : f[i] = f[j] => i = j

\* the value each crawler returns
SimpleResult(pdfs, visited) ==
    [all_links |-> all_links_found, pdfs_discovered |-> pdfs, urls_visited |-> visited,
     total_links_found |-> Len(all_links_found),
     total_pdfs_found |-> Cardinality(pdfs_found),
     total_urls_visited |-> Cardinality(visited_urls)]

CompResult(pdfs, visited) ==
    [pdfs_discovered |-> pdfs, urls_visited |-> visited,
     total_pdfs |-> Cardinality(pdfs_found),
     total_urls_visited |-> Cardinality(visited_urls),
     elapsed_time_seconds |-> elapsed,
     portal_urls_used |-> starting_urls, allowed_domains |-> allowed_domains]

RegionalResult ==
    [elapsed_time_seconds |-> elapsed, urls_processed |-> urls_processed,
     total_pdfs_found |-> Len(all_pdfs), all_pdfs |-> all_pdfs]

\* quick_payer_test returns len(pdfs_found) and prints len(urls_visited)
QuickResult ==
    [returned |-> Cardinality(pdfs_found), printed_urls_visited |-> Cardinality(visited_urls)]

\* the loop condition is false: the result is built and returned
LoopExit ==
    /\ pc = "loop" /\ ~LoopCond
    /\ result' = << CASE kind = "simple" ->
                              SimpleResult(ListOf(pdfs_found), ListOf(visited_urls))
                      [] kind = "comprehensive" ->
                              CompResult(ListOf(pdfs_found), ListOf(visited_urls))
                      [] kind = "regional" -> RegionalResult
                      [] kind = "quick"    -> QuickResult >>
    /\ driver' = (IF kind = "quick" THEN "quit" ELSE driver)
    /\ slept' = TRUE
    /\ pc' = "done"
    /\ UNCHANGED <<config, crawls, starting_urls, allowed_domains,
                   max_time_seconds, elapsed, queue, visited_urls,
                   urls_processed, pdfs_found, all_pdfs, all_links_found, cur,
                   fetch_log, failed, doc_log, fn_vars>>

\* the clock advances between two evaluations of the `while` condition, the
\* only place where a running crawl reads it; readings past the time limit
\* are not told apart
Tick ==
    /\ pc = "loop"
    /\ elapsed < max_time_seconds
    /\ \E dt \in TickSteps : elapsed' = elapsed + dt
    /\ UNCHANGED <<config, crawls, pc, starting_urls, allowed_domains,
                   max_time_seconds, queue, visited_urls, urls_processed,
                   pdfs_found, all_pdfs, all_links_found, cur, result,
                   fetch_log, failed, doc_log, driver,
                   fn_vars, slept>>

\* KeyboardInterrupt is raised while a page is being fetched: `except
\* Exception` does not catch it, the crawl function is left without a return
\* value, and no caller reads the collections of the frame that is left (the
\* variables keep what they held). quick_payer_test quits its browser in
\* `finally`.
Interrupt ==
    /\ pc = "fetch"
    /\ fetch_log' = Append(fetch_log, <<cur[1], cur[2]>>)
    /\ cur' = <<>>
    /\ result' = <<>>
    /\ driver' = (IF kind = "quick" THEN "quit" ELSE driver)
    /\ slept' = TRUE
    /\ pc' = "aborted"
    /\ UNCHANGED <<config, crawls, starting_urls, allowed_domains,
                   max_time_seconds, elapsed, queue, visited_urls,
                   urls_processed, pdfs_found, all_pdfs, all_links_found,
                   failed, doc_log, fn_vars>>

\* crawler.close() in the `finally` of the caller that built the crawler
Close ==
    /\ kind # "quick"
    /\ pc \in {"idle", "done", "aborted"}
    /\ driver = "open"
    /\ driver' = "quit"
    /\ pc' = "closed"
    /\ UNCHANGED <<config, crawls, starting_urls, allowed_domains,
                   max_time_seconds, elapsed, queue, visited_urls,
                   urls_processed, pdfs_found, all_pdfs, all_links_found, cur,
                   result, fetch_log, failed, doc_log, fn_vars, slept>>

KnownPortals == {<<>>, Ext}

Start ==
    \/ \E urls \in SeedLists, allowed \in AllowedLists : StartSimple(urls, allowed)
    \/ \E urls \in SeedLists \ {<<>>} : StartComprehensive(urls, 1)
    \/ CompNoPortals
    \/ \E urls \in SeedLists, allowed \in AllowedLists : StartRegional(urls, allowed, 1)
    \/ \E known \in KnownPortals, working \in 0..1, limit \in {45} :
           StartQuick(known, working, limit)

Step ==
    \/ Discard
    \/ Visit
    \/ DomainSkip
    \/ FetchFail
    \/ \E links \in PageLinks : FetchOK(links)
    \/ LoopExit

Next == Start \/ Step \/ Tick \/ Interrupt \/ Close

Spec == Init /\ [][Next]_vars

\* the crawl loop runs to its end once started: every step of the loop is a
\* step of one sequential thread, and page loads are bounded by the page-load
\* timeout set in setup_webdriver
FairSpec == Spec /\ WF_vars(Step)

(* ------------------------- portal discovery --------------------------- *)
\* self.portal_patterns of IntelligentCSVCrawler
portal_patterns ==
    << "provider", "providers", "health-care-professionals",
       "healthcare-professionals", "provider-portal", "provider-resources",
       "provider-support", "professional", "professionals", "practitioner",
       "physician", "doctor" >>

\* self.portal_subdomains
portal_subdomains == << "provider", "providers", "professional", "portal", "prov" >>

\* base_url = f"https://www.{base_domain}"
BaseUrl(base_domain) == <<"www">> \o base_domain

\* candidate_urls of Strategy 1 for one pattern
PatternCandidates(base_domain, pattern) ==
    << BaseUrl(base_domain) \o <<"/", pattern, "/">>,
       BaseUrl(base_domain) \o <<"/", pattern, ".html">>,
       BaseUrl(base_domain) \o <<"/", "en", "/", pattern, "/">>,
       BaseUrl(base_domain) \o <<"/", "en", "/", pattern, ".html">> >>

\* every URL Strategy 1 and then Strategy 2 pass to check_url_validity, in the
\* order of the calls
TemplateCandidates(base_domain) ==
    [k \in 1..(4 * Len(portal_patterns) + Len(portal_subdomains)) |->
        IF k <= 4 * Len(portal_patterns)
        THEN PatternCandidates(base_domain,
                 portal_patterns[((k - 1) \div 4) + 1])[((k - 1) % 4) + 1]
        ELSE <<portal_subdomains[k - 4 * Len(portal_patterns)]>> \o base_domain \o <<"/">>]

\* provider_keywords of search_main_page_for_portals
provider_keywords ==
    { <<"provider">>, <<"professional">>, <<"physician">>, <<"doctor">>,
      <<"practitioner">>, <<"health", " ", "care", " ", "professional">>,
      <<"medical", " ", "professional">> }

\* parsed.netloc and parsed.scheme in ['http', 'https']
HasHttpHost(url) == url # <<>> /\ url[1] \notin {"mailto:", "javascript:"}

\* search_main_page_for_portals: links is <<>> when the page could not be
\* loaded
search_main_page_for_portals(base_url, links) ==
    LET hit(i) == /\ \E kw \in provider_keywords : Contains(LowerSeq(links[i].text), kw)
                  /\ HasHttpHost(UrlJoin(base_url, links[i].href))
        F[i \in 0..Len(links)] ==
            IF i = 0 THEN <<>>
            ELSE IF hit(i) THEN Append(F[i - 1], UrlJoin(base_url, links[i].href))
            ELSE F[i - 1]
    IN F[Len(links)]

\* the known portal is appended after the discovered URLs
PortalList_known_last(known_portal, found) ==
    found \o (IF known_portal # <<>> THEN <<known_portal>> ELSE <<>>)

\* discovered_urls: the known portal, if there is one, is appended first
PortalList(known_portal, found) ==
    (IF known_portal # <<>> THEN <<known_portal>> ELSE <<>>) \o found

\* the list is returned as collected
Unique_all(urls) == urls

\* "Remove duplicates while preserving order"
Unique(urls) ==
    LET F[i \in 0..Len(urls)] ==
            IF i = 0 THEN <<>>
            ELSE IF \E j \in 1..Len(F[i - 1]) : F[i - 1][j] = urls[i]
                 THEN F[i - 1]
                 ELSE Append(F[i - 1], urls[i])
    IN F[Len(urls)]

\* the elements of a sequence that are in a set, in their order
Filter(seq, S) ==
    LET F[i \in 0..Len(seq)] ==
            IF i = 0 THEN <<>>
            ELSE IF seq[i] \in S THEN Append(F[i - 1], seq[i]) ELSE F[i - 1]
    IN F[Len(seq)]

\* IntelligentCSVCrawler.discover_provider_portal; valid is the set of URLs
\* for which check_url_validity returns True
discover_provider_portal(base_domain, known_portal, valid, main_page) ==
    Unique(PortalList(known_portal,
               Filter(TemplateCandidates(base_domain), valid)
               \o search_main_page_for_portals(BaseUrl(base_domain), main_page)))

\* the URLs ComprehensivePDFDiscovery.discover_provider_portals tries, in the
\* order of the calls: for each of portal_patterns[:5] the path candidate and
\* the two subdomain candidates
CompCandidates(base_domain) ==
    [k \in 1..15 |->
        CASE (k - 1) % 3 = 0 ->
                 BaseUrl(base_domain) \o <<"/", portal_patterns[((k - 1) \div 3) + 1], "/">>
          [] (k - 1) % 3 = 1 -> <<"provider">> \o base_domain \o <<"/">>
          [] (k - 1) % 3 = 2 -> <<"providers">> \o base_domain \o <<"/">>]

\* ComprehensivePDFDiscovery.discover_provider_portals: a valid candidate not
\* yet in the list is appended until the list holds 3 URLs
discover_provider_portals(base_domain, known_portal, valid) ==
    LET cand == CompCandidates(base_domain)
        F[i \in 0..Len(cand)] ==
            IF i = 0 THEN PortalList(known_portal, <<>>)
            ELSE IF /\ Len(F[i - 1]) < 3
                    /\ cand[i] \in valid
                    /\ \A j \in 1..Len(F[i - 1]) : F[i - 1][j] # cand[i]
                 THEN Append(F[i - 1], cand[i])
                 ELSE F[i - 1]
    IN F[Len(cand)]

(* --------------------- regional indicators of a link ------------------ *)
\* str.lower() on state codes and on the tokens of file names
LowerTok(tok) ==
    CASE tok = "CAID"           -> "caid"
      [] tok = "ProviderManual" -> "providermanual"
      [] OTHER                  -> Lower(CodeLower(tok))

LowerToks(s) == [i \in 1..Len(s) |-> LowerTok(s[i])]

\* RegionalEnhancedCrawler.detect_regional_indicators; an indicator
\* 'state_XX' is <<"state", "XX">>, 'keyword_...' is <<"keyword", kw>>
detect_regional_indicators(url, text) ==
    LET url_lower  == LowerToks(url)
        text_lower == LowerToks(text)
        codes      == {us_states_items[i][1] : i \in 1..Len(us_states_items)}
    IN (IF RegionalUrlPattern(url_lower) THEN {<<"regional_url_pattern">>} ELSE {})
       \cup {<<"state", c>> : c \in {code \in codes :
                 \/ Contains(url_lower, <<"/", CodeLower(code), "/">>)
                 \/ Contains(url_lower, <<code, "_">>)}}
       \cup {<<"keyword", kw>> : kw \in {k \in regional_keywords : Contains(text_lower, k)}}
       \cup {<<"state", c>> : c \in {code \in codes : Contains(text_lower, us_states[code])}}

(* ----------------- the helpers applied to their inputs ---------------- *)
\* outcomes of the HEAD requests: <<url, status code>>; a URL without a pair
\* is one whose request raises
HeadOutcomes ==
    { {},
      { << <<"www", "uhc", "com", "/", "providers", "/">>, 200 >>,
        << <<"www", "uhc", "com", "/", "provider", "/">>, 404 >> },
      { << <<"www", "uhc", "com", "/", "providers", "/">>, 301 >>,
        << <<"provider", "uhc", "com", "/">>, 200 >>,
        << <<"www", "uhc", "com", "/", "en", "/", "provider", ".html">>, 399 >>,
        << <<"www", "uhc", "com", "/", "en", "/", "providers", ".html">>, 400 >> },
      { << <<"providers", "uhc", "com", "/">>, 200 >>,
        << <<"provider", "uhc", "com", "/">>, 500 >>,
        << <<"www", "uhc", "com", "/", "provider", "/">>, 200 >>,
        << <<"www", "uhc", "com", "/", "health-care-professionals", "/">>, 200 >>,
        << Ext, 200 >> },
      { << <<"www", "uhc", "com", "/", "provider", "/">>, 200 >>,
        << Ext, 200 >>,
        << Home, 200 >> } }

\* check_url_validity: 200 <= response.status_code < 400, False when the
\* request raises
check_url_validity(head, url) ==
    \E p \in head : p[1] = url /\ 200 <= p[2] /\ p[2] < 400

\* the URLs for which check_url_validity returns True
ValidOf(head) == {p[1] : p \in {q \in head : check_url_validity(head, q[1])}}

ValidSets == {ValidOf(h) : h \in HeadOutcomes}

\* the first of common_portals whose HEAD request gives 200..399, 0 if none
FirstWorking(head) ==
    LET cp == common_portals(BaseDomain)
        ok == {i \in 1..Len(cp) : check_url_validity(head, cp[i])}
    IN IF ok = {} THEN 0 ELSE CHOOSE i \in ok : \A j \in ok : i <= j

\* the known portal of a payer row: none, one on another domain, one that is
\* also a template candidate
KnownPortalArgs == { <<>>, Ext, <<"www", "uhc", "com", "/", "providers", "/">> }

\* anchors of the organization's home page
HomeAnchors ==
    { [text |-> <<"Provider", " ", "Manual">>, href |-> <<"/", "providers", "/">>],
      [text |-> <<"Provider", " ", "Manual">>, href |-> Ext],
      [text |-> <<"click", " ", "here">>, href |-> <<"/", "other", "/">>],
      [text |-> <<"Provider", " ", "Manual">>, href |-> <<"/", "manual", ".pdf">>],
      [text |-> <<"Provider">>, href |-> <<"mailto:", "provider", "@", "uhc", "com">>] }

MaxHomeLinks == 2

HomePages == UNION { [1..n -> HomeAnchors] : n \in 0..MaxHomeLinks }

\* anchor texts and URLs of a link about one state
StateTexts(code) ==
    { us_states[code] \o <<" ", "Medicaid", " ", "Provider", " ", "Manual">>,
      <<code, " ", "Provider", " ", "Manual">>,
      <<"Provider", " ", "Manual">> }

StateUrls(code) ==
    { <<"www", "uhc", "com", "/", "docs", "/", code, "_", "CAID", "_", "ProviderManual", ".pdf">>,
      <<"www", "uhc", "com", "/", CodeLower(code), "/", "manual", ".pdf">>,
      <<"www", "uhc", "com", "/", "providers", "/", CodeLower(code), "/">>,
      <<"www", "uhc", "com", "/", "manual", ".PDF">> }

(* ------------------- coverage of a regional crawl --------------------- *)
\* the state codes among the indicators of a URL and a text
StateTags(url, text) ==
    {ind[2] : ind \in {x \in detect_regional_indicators(url, text) : x[1] = "state"}}

\* one fetched page in discover_regional_content_bfs: the states of the page
\* go to state_coverage; every link inside the allowed domains that is a PDF
\* goes to all_pdfs and, under each state of its indicators, to regional_pdfs
\* (here the set of <<state, pdf url>>)
CoveragePage(acc, page, allowed) ==
    LET absolute_url(i) == UrlJoin(page.url, page.links[i].href)
        pdf(i) == /\ DomainAllowed(absolute_url(i), allowed)
                  /\ is_pdf_url(absolute_url(i))
        F[i \in 0..Len(page.links)] ==
            IF i = 0
            THEN [acc EXCEPT !.state_coverage = @ \cup StateTags(page.url, page.text)]
            ELSE IF pdf(i)
                 THEN [F[i - 1] EXCEPT
                          !.all_pdfs = Append(@, absolute_url(i)),
                          !.regional_pdfs = @ \cup
                              {<<c, absolute_url(i)>> :
                                   c \in StateTags(absolute_url(i),
                                                    LowerSeq(page.links[i].text))}]
                 ELSE F[i - 1]
    IN F[Len(page.links)]

\* the literal 50 of 'regional_completeness'
CompletenessDenominator == 50

\* the coverage fields of the result of discover_regional_content_bfs for the
\* pages it fetched; regional_completeness is kept as numerator and denominator
RegionalCoverage(pages, allowed) ==
    LET F[i \in 0..Len(pages)] ==
            IF i = 0
            THEN [state_coverage |-> {}, all_pdfs |-> <<>>, regional_pdfs |-> {}]
            ELSE CoveragePage(F[i - 1], pages[i], allowed)
        acc == F[Len(pages)]
    IN [state_coverage |-> acc.state_coverage,
        states_covered_count |-> Cardinality(acc.state_coverage),
        regional_pdfs |-> acc.regional_pdfs,
        all_pdfs |-> acc.all_pdfs,
        regional_completeness |->
            [num |-> Cardinality(acc.state_coverage), den |-> CompletenessDenominator]]

\* every state name, one after the other
AllStatesText ==
    LET F[i \in 0..Len(us_states_values)] ==
            IF i = 0 THEN <<>> ELSE F[i - 1] \o <<" ">> \o us_states_values[i]
    IN F[Len(us_states_values)]

\* pages a regional crawl fetches: [url, text, links]
CoveragePages ==
    { [url |-> Home, text |-> <<"provider", " ", "resources">>, links |-> <<>>],
      [url |-> Home, text |-> <<"provider", " ", "resources">>,
       links |-> << [text |-> <<"California", " ", "Medicaid", " ", "Provider", " ", "Manual">>,
                     href |-> <<"/", "docs", "/", "OH", "_", "CAID", "_", "ProviderManual", ".pdf">>] >>],
      [url |-> Prov, text |-> <<"California", " ", "Medicaid">>,
       links |-> << [text |-> <<"Provider", " ", "Manual">>,
                     href |-> <<"/", "manual", ".pdf">>] >>],
      [url |-> <<"www", "uhc", "com", "/", "tx", "/">>, text |-> <<"plans">>,
       links |-> << [text |-> <<"texas", " ", "Provider", " ", "Manual">>,
                     href |-> <<"/", "tx", "/", "manual", ".pdf">>] >>],
      [url |-> Home, text |-> <<"ohio">>,
       links |-> << [text |-> <<"ohio", " ", "Provider", " ", "Manual">>,
                     href |-> <<"www", "uhcprovider", "com", "/", "guide", ".pdf">>] >>],
      [url |-> Home, text |-> AllStatesText, links |-> <<>>] }

MaxPages == 2

CrawledPages == UNION { [1..n -> CoveragePages] : n \in 0..MaxPages }

\* anchors given to the body of the link loop
LoopLinks ==
    Links \cup
    { [text |-> <<"click", " ", "here">>, href |-> <<"/", "ca", "/">>],
      [text |-> <<"California", " ", "Medicaid">>, href |-> <<"/", "plans", "/">>],
      [text |-> <<"document">>, href |-> <<"/", "other", "/">>],
      [text |-> <<"Medicaid">>, href |-> <<"/", "other", "/">>] }

\* the helpers are applied on a crawler that runs no crawl
FnIdle ==
    /\ ret = <<>>
    /\ max_urls_per_payer = 0
    /\ crawls = 0 /\ pc = "idle" /\ driver = "open"
    /\ starting_urls = <<>>
    /\ max_time_seconds = 0 /\ elapsed = 0
    /\ queue = <<>> /\ visited_urls = {} /\ urls_processed = 0
    /\ pdfs_found = {} /\ all_pdfs = <<>> /\ all_links_found = <<>>
    /\ cur = <<>> /\ result = <<>> /\ fetch_log = <<>>
    /\ failed = {} /\ doc_log = {} /\ slept = TRUE

\* the arguments of one call of a helper
FnInit ==
    /\ FnIdle
    /\ \/ /\ kind = "regional" /\ max_depth = 0 /\ allowed_domains = {}
          /\ \/ call \in { << [fn |-> "discover_provider_portal", known_portal |-> k,
                                head |-> h, valid |-> ValidOf(h), main_page |-> p] >> :
                               k \in KnownPortalArgs, h \in HeadOutcomes, p \in HomePages }
             \/ call \in { << [fn |-> "discover_provider_portals", known_portal |-> k,
                                head |-> h, valid |-> ValidOf(h)] >> :
                               k \in KnownPortalArgs, h \in HeadOutcomes }
             \/ call \in { << [fn |-> "quick_payer_test", known_portal |-> k,
                                head |-> h, working |-> FirstWorking(h)] >> :
                               k \in KnownPortalArgs, h \in HeadOutcomes }
             \/ call \in { << [fn |-> "detect_regional_indicators",
                                url |-> u, text |-> t] >> :
                               u \in UNION {StateUrls(priority_states[i]) : i \in 1..Len(priority_states)},
                               t \in UNION {StateTexts(priority_states[i]) : i \in 1..Len(priority_states)} }
       \/ /\ kind = "regional" /\ max_depth = 0 /\ allowed_domains = {BaseDomain}
          /\ call \in { << [fn |-> "discover_regional_content_bfs", pages |-> ps] >> :
                            ps \in CrawledPages }
       \/ /\ kind \in Kinds /\ max_depth = 1 /\ allowed_domains = {BaseDomain}
          /\ call \in { << [fn |-> "process_link", link |-> l, task |-> <<Home, 0, 0>>] >> :
                            l \in LoopLinks }

crawl_vars == <<kind, max_depth, max_urls_per_payer, crawls, pc, starting_urls,
                allowed_domains, max_time_seconds, elapsed, queue, visited_urls,
                urls_processed, pdfs_found, all_pdfs, all_links_found, cur,
                result, fetch_log, failed, doc_log, driver, slept>>

Pending(fn) == call # <<>> /\ ret = <<>> /\ call[1].fn = fn

DiscoverPortal ==
    /\ Pending("discover_provider_portal")
    /\ ret' = << discover_provider_portal(BaseDomain, call[1].known_portal,
                                          call[1].valid, call[1].main_page) >>
    /\ UNCHANGED <<call, crawl_vars>>

DiscoverPortals ==
    /\ Pending("discover_provider_portals")
    /\ ret' = << discover_provider_portals(BaseDomain, call[1].known_portal,
                                           call[1].valid) >>
    /\ UNCHANGED <<call, crawl_vars>>

QuickSeeds ==
    /\ Pending("quick_payer_test")
    /\ ret' = << QuickStartingUrls(call[1].known_portal, call[1].working) >>
    /\ UNCHANGED <<call, crawl_vars>>

\* the PDF test and the state tags of one link, as in the link loop of
\* discover_regional_content_bfs
DetectRegional ==
    /\ Pending("detect_regional_indicators")
    /\ ret' = << [is_document |-> is_pdf_url(call[1].url),
                  indicators |-> detect_regional_indicators(call[1].url, call[1].text)] >>
    /\ UNCHANGED <<call, crawl_vars>>

\* the coverage fields discover_regional_content_bfs returns for the pages it
\* fetched
CoverageReport ==
    /\ Pending("discover_regional_content_bfs")
    /\ ret' = << RegionalCoverage(call[1].pages, allowed_domains) >>
    /\ UNCHANGED <<call, crawl_vars>>

\* the body of `for link in links` applied to one anchor of a depth-0 page
ProcessLink ==
    /\ Pending("process_link")
    /\ ret' = << LinkStep(Acc, call[1].link, call[1].task) >>
    /\ UNCHANGED <<call, crawl_vars>>

FnNext ==
    \/ DiscoverPortal \/ DiscoverPortals \/ QuickSeeds \/ DetectRegional
    \/ CoverageReport \/ ProcessLink

FnSpec == FnInit /\ [][FnNext]_vars

(* ============================== claims ================================ *)
FetchedUrls == {fetch_log[i][1] : i \in 1..Len(fetch_log)}

Occurrences(seq, x) == Cardinality({i \in 1..Len(seq) : seq[i] = x})

QueueCount(q, u) == Cardinality({i \in 1..Len(q) : q[i][1] = u})

\* the crawl has returned a crawl result (not the 'error' record)
Returned == pc = "done" /\ result # <<>> /\ "error" \notin DOMAIN result[1]

HasUrlList == kind \in {"simple", "comprehensive"}

\* C1: in one crawl no URL is passed to driver.get twice, and every URL
\* fetched appears exactly once in the urls_visited list that is returned
NoRevisit ==
    /\ \A i, j \in 1..Len(fetch_log) : fetch_log[i][1] = fetch_log[j][1] => i = j
    /\ (Returned /\ HasUrlList) =>
           /\ \A u \in FetchedUrls : Occurrences(result[1].urls_visited, u) = 1
           /\ \A i, j \in 1..Len(result[1].urls_visited) :
                  result[1].urls_visited[i] = result[1].urls_visited[j] => i = j

\* a URL fetched in this crawl has another task on the frontier: it was
\* enqueued more than once before its first pop
NoRevisitWitness ==
    /\ kind # "quick"
    /\ \E i \in 1..Len(queue) : queue[i][1] \in FetchedUrls

\* C2: a crawl that has entered its loop returns a result, or is aborted by
\* an interrupt
Termination == (pc \in {"loop", "fetch"}) ~> (pc \in {"done", "aborted"})

\* a finished crawl in which two pages linked to each other
TerminationWitness ==
    /\ kind = "simple" /\ Returned
    /\ \E i, j \in 1..Len(all_links_found) :
           /\ all_links_found[i].url = all_links_found[j].parent
           /\ all_links_found[j].url = all_links_found[i].parent
           /\ all_links_found[i].url # all_links_found[i].parent

\* the budget of each crawler
MaxUrlsOf ==
    CASE kind = "simple"        -> UrlBudget
      [] kind = "comprehensive" -> max_urls_per_payer
      [] kind = "regional"      -> UrlBudget
      [] kind = "quick"         -> UrlBudget

\* the number of visited URLs a finished crawl reports
ReportedVisited ==
    CASE kind = "simple"        -> result[1].total_urls_visited
      [] kind = "comprehensive" -> result[1].total_urls_visited
      [] kind = "regional"      -> result[1].urls_processed
      [] kind = "quick"         -> result[1].printed_urls_visited

\* C3: the number of visited URLs a finished crawl reports is at most max_urls
UrlBudgetRespected ==
    Returned =>
        /\ ReportedVisited <= MaxUrlsOf
        /\ HasUrlList => Len(result[1].urls_visited) <= MaxUrlsOf

\* a crawl stopped by its budget while tasks were still waiting
UrlBudgetWitness == Returned /\ ReportedVisited = MaxUrlsOf /\ queue # <<>>

\* C4: no URL is fetched at a depth above max_depth and no document is
\* recorded from a page deeper than max_depth
DepthBound ==
    /\ \A i \in 1..Len(fetch_log) : fetch_log[i][2] <= max_depth
    /\ \A d \in doc_log : d[2] <= max_depth

\* a regional crawl with max_depth = 0 that recorded a document and has
\* dropped all its depth-1 state-specific candidates
DepthBoundWitness ==
    /\ kind = "regional" /\ max_depth = 0 /\ Returned
    /\ starting_urls # <<>> /\ queue = <<>>
    /\ doc_log # {}

\* host is one of the allowed domains or a subdomain of one
HostBelongs(host, allowed) ==
    \E d \in allowed :
        /\ Len(d) <= Len(host)
        /\ SubSeq(host, Len(host) - Len(d) + 1, Len(host)) = d

\* C5: every URL in the visited set of a crawl has a host that belongs to the
\* allowed-domain set of that crawl (stated for the first crawl of an object
\* and a non-empty allowed set)
DomainContainment ==
    (crawls = 1 /\ allowed_domains # {}) =>
        \A u \in visited_urls : HostBelongs(Netloc(u), allowed_domains)

Range(seq) == {seq[i] : i \in 1..Len(seq)}

\* the document URLs and visited URLs a returned result carries
ResultDocs ==
    CASE kind \in {"simple", "comprehensive"} -> Range(result[1].pdfs_discovered)
      [] kind = "regional"                    -> Range(result[1].all_pdfs)
      [] OTHER                                -> {}

ResultUrls ==
    IF "urls_visited" \in DOMAIN result[1] THEN Range(result[1].urls_visited) ELSE {}

\* the number of documents a finished crawl reports
ReportedDocs ==
    CASE kind = "simple"        -> result[1].total_pdfs_found
      [] kind = "comprehensive" -> result[1].total_pdfs
      [] kind = "regional"      -> result[1].total_pdfs_found
      [] kind = "quick"         -> result[1].returned

\* C6: when the loop stops on a budget with tasks still waiting, every
\* document recorded and every URL visited in the crawl is in the result
\* (stated for the crawlers that return a record)
PartialResults ==
    (Returned /\ kind # "quick" /\ queue # <<>>) =>
        /\ {d[1] : d \in doc_log} \subseteq ResultDocs
        /\ FetchedUrls \subseteq ResultUrls

\* C7: a failed fetch leaves the crawl running with the frontier as it was;
\* the failed URL stays visited, has been fetched once, and no later step
\* adds a task for it
FetchFailureLocal ==
    /\ [](\A u \in failed :
              u \in visited_urls /\ Cardinality({i \in 1..Len(fetch_log) : fetch_log[i][1] = u}) = 1)
    /\ [][ /\ (pc = "fetch" /\ failed' # failed) => (pc' = "loop" /\ queue' = queue)
           /\ \A u \in failed \cap failed' : QueueCount(queue', u) <= QueueCount(queue, u)
         ]_vars

\* a crawl that returned after one fetch failed and a later fetch was made
FetchFailureWitness ==
    /\ Returned /\ failed # {}
    /\ \E i \in 1..Len(fetch_log) :
           fetch_log[i][1] \in failed /\ i < Len(fetch_log)

\* C8: when the fetch of every seed fails, the crawl returns a result with
\* zero documents and a visited total of 0
AllSeedsFail ==
    (Returned /\ starting_urls # <<>> /\ Range(starting_urls) \subseteq failed) =>
        (ReportedDocs = 0 /\ ReportedVisited = 0)

\* C9: a crawl given no seed or no allowed domain ends in an error handed to
\* the caller before any fetch
ConfigurationError ==
    (pc = "done" /\ (starting_urls = <<>> \/ allowed_domains = {})) =>
        (result # <<>> /\ "error" \in DOMAIN result[1] /\ fetch_log = <<>>)

\* C10: every crawl starts with an empty visited set
SessionIndependence ==
    [][(pc \in {"idle", "done"} /\ pc' = "loop") => visited_urls' = {}]_vars

\* C11: when a crawl is aborted by an interrupt while a page is processed, the
\* caller gets a result that holds the documents recorded and the URLs
\* fetched up to then
AbortFlushes ==
    pc = "aborted" =>
        /\ result # <<>>
        /\ {d[1] : d \in doc_log} \subseteq ResultDocs
        /\ FetchedUrls \subseteq ResultUrls

\* the states in which the caller is through with the crawler
EndState ==
    \/ pc \in {"closed", "raised"}
    \/ kind = "quick" /\ pc \in {"done", "aborted"}

\* C12: no end state leaves a started browser session open
BrowserRelease == EndState => driver # "open"

\* the list of documents a returned result carries
ResultDocList ==
    CASE kind \in {"simple", "comprehensive"} -> result[1].pdfs_discovered
      [] kind = "regional"                    -> result[1].all_pdfs

\* C13: no document URL occurs twice in the returned list, and the reported
\* document total is the number of distinct document URLs recorded
DeduplicatedDocuments ==
    Returned =>
        /\ kind # "quick" =>
               \A i, j \in 1..Len(ResultDocList) :
                   ResultDocList[i] = ResultDocList[j] => i = j
        /\ ReportedDocs = Cardinality({d[1] : d \in doc_log})

\* the URLs the anchors of a page can resolve to
LinkTargets(page) == {UrlJoin(page, l.href) : l \in Links}

\* C14: every URL visited or fetched in a crawl is a seed of that crawl or
\* the target of an anchor of a page fetched in that crawl
VisitedFromGraph ==
    \A u \in visited_urls \cup FetchedUrls :
        \/ u \in Range(starting_urls)
        \/ \E p \in FetchedUrls \ failed : u \in LinkTargets(p)

\* a helper has returned
Applied(fn) == call # <<>> /\ ret # <<>> /\ call[1].fn = fn

SeedFunctions == {"discover_provider_portal", "discover_provider_portals", "quick_payer_test"}

\* C15: when a known portal is given to a seed discovery function, it is the
\* first element of the sequence the function returns
KnownPortalFirst ==
    (call # <<>> /\ ret # <<>> /\ call[1].fn \in SeedFunctions /\ call[1].known_portal # <<>>) =>
        (ret[1] # <<>> /\ ret[1][1] = call[1].known_portal)

\* discover_provider_portal has returned a list of several URLs for a row
\* whose known portal also validates as a template candidate
KnownPortalFirstWitness ==
    /\ Applied("discover_provider_portal")
    /\ call[1].known_portal # <<>>
    /\ call[1].known_portal \in call[1].valid
    /\ call[1].main_page # <<>>
    /\ Len(ret[1]) >= 3

\* position of a URL in the order known portal, template candidates in the
\* order of their declaration, links of the home page in document order
SeedRank(c, url) ==
    LET tc   == TemplateCandidates(BaseDomain)
        home == search_main_page_for_portals(BaseUrl(BaseDomain), c.main_page)
    IN IF url = c.known_portal THEN 0
       ELSE IF url \in c.valid /\ \E k \in 1..Len(tc) : tc[k] = url
            THEN CHOOSE k \in 1..Len(tc) : tc[k] = url
       ELSE Len(tc) + (CHOOSE k \in 1..Len(home) :
                           home[k] = url /\ \A j \in 1..(k - 1) : home[j] # url)

\* the URLs discover_provider_portal has to return for its arguments
SeedSet(c) ==
    (IF c.known_portal # <<>> THEN {c.known_portal} ELSE {})
    \cup (Range(TemplateCandidates(BaseDomain)) \cap c.valid)
    \cup Range(search_main_page_for_portals(BaseUrl(BaseDomain), c.main_page))

\* C16: discover_provider_portal returns every seed once, ordered by first
\* occurrence: known portal, template candidates in declaration order, links
\* of the home page
OrderedDedupSeeds ==
    Applied("discover_provider_portal") =>
        /\ Range(ret[1]) = SeedSet(call[1])
        /\ \A i, j \in 1..Len(ret[1]) :
               i < j => SeedRank(call[1], ret[1][i]) < SeedRank(call[1], ret[1][j])

\* a returned list for a home page that links twice to a URL that is also a
\* valid template candidate
OrderedDedupWitness ==
    /\ Applied("discover_provider_portal")
    /\ Len(call[1].main_page) = 2
    /\ call[1].main_page[1] = call[1].main_page[2]
    /\ UrlJoin(BaseUrl(BaseDomain), call[1].main_page[1].href) \in call[1].valid
    /\ Len(ret[1]) >= 2

\* the postal code stands as a token of its own in a text or URL
HasCodeToken(s, code) == \E i \in 1..Len(s) : s[i] \in {code, CodeLower(code)}

\* C17: a link whose anchor text holds a state's name, or whose anchor text
\* or URL holds the state's postal code as a token or path segment, is tagged
\* with that state, and a URL that holds '.pdf' is a document
RegionalTagExtraction ==
    Applied("detect_regional_indicators") =>
        /\ \A i \in 1..Len(priority_states) :
               ( \/ Contains(LowerToks(call[1].text), us_states[priority_states[i]])
                 \/ HasCodeToken(call[1].text, priority_states[i])
                 \/ HasCodeToken(call[1].url, priority_states[i]) )
               => <<"state", priority_states[i]>> \in ret[1].indicators
        /\ Contains(LowerToks(call[1].url), <<".pdf">>) => ret[1].is_document

\* the tasks a step has put on the frontier: the whole queue when a crawl
\* starts, the tasks behind the old ones when a page has been processed
NewTasks ==
    IF pc \in {"idle", "done"} /\ pc' = "loop" THEN 1..Len(queue')
    ELSE IF Len(queue') > Len(queue) THEN (Len(queue) + 1)..Len(queue')
    ELSE {}

\* C18: every task put on the frontier has a URL whose host belongs to the
\* allowed domains, a depth of at most max_depth, and a URL that is not in
\* the visited set
EnqueueInvariant ==
    [][\A i \in NewTasks :
           /\ HostBelongs(Netloc(queue'[i][1]), allowed_domains')
           /\ queue'[i][2] <= max_depth
           /\ queue'[i][1] \notin visited_urls'
      ]_vars

\* C19: the depths of the fetched tasks never decrease, the frontier is
\* ordered by depth, and no task waits at a smaller depth than the one being
\* processed
BreadthFirstOrder ==
    /\ \A i, j \in 1..Len(fetch_log) : i < j => fetch_log[i][2] <= fetch_log[j][2]
    /\ \A i, j \in 1..Len(queue) : i < j => queue[i][2] <= queue[j][2]
    /\ cur # <<>> => \A i \in 1..Len(queue) : cur[2] <= queue[i][2]

\* a depth-1 page is being fetched after a depth-0 page while tasks wait
BreadthFirstWitness ==
    /\ pc = "fetch" /\ cur[2] = 1 /\ queue # <<>>
    /\ \E i \in 1..Len(fetch_log) : fetch_log[i][2] = 0

\* C20: when a fetched page has been processed, every anchor of it whose URL
\* is a document is among the recorded documents
DocumentsBypassGate ==
    [][\A links \in PageLinks :
           FetchOK(links) =>
               \A i \in 1..Len(links) :
                   is_pdf_url(UrlJoin(cur[1], links[i].href)) =>
                       UrlJoin(cur[1], links[i].href) \in pdfs_found' \cup Range(all_pdfs')
      ]_vars

\* the URL holds '.pdf' in any letter case
IsDocument(url) == \E i \in 1..Len(url) : url[i] \in {".pdf", ".PDF"}

\* C21: no task on the frontier that stems from a link has a document URL
DocumentsAreLeaves ==
    \A i \in 1..Len(queue) :
        IsDocument(queue[i][1]) => queue[i][1] \in Range(starting_urls)

\* a document with a relevant anchor was recorded from a page above the
\* depth limit, where a page link of the same kind would have been enqueued
DocumentsAreLeavesWitness ==
    /\ pc = "loop" /\ max_depth >= 1
    /\ \E d \in doc_log : d[2] < max_depth /\ d[1] \notin visited_urls

\* a link has a topical score above 0: a keyword of the topical set occurs
\* in its lowered anchor text and URL
Topical(link) == \E kw \in SimpleKeywords : Contains(Combined(link.text, link.href), kw)

\* C22: a link that the link loop puts on the frontier has a topical score
\* above 0
TopicalGate ==
    (Applied("process_link") /\ ret[1].queue # <<>>) => Topical(call[1].link)

\* C23: in a crawl with a time limit, once the elapsed time has reached the
\* limit the loop pops no further task: its next step completes the crawl
DeadlineCheck ==
    [][(kind \in {"regional", "comprehensive", "quick"}
            /\ pc = "loop" /\ elapsed >= max_time_seconds) =>
           (queue' = queue /\ pc' = "done")
      ]_vars

\* C25: a step that pops a task whose URL is in the visited set or whose
\* depth is above max_depth changes neither the visited set nor the counter
\* compared with the budget nor the documents
DiscardsDoNotCount ==
    [][(pc = "loop" /\ queue # <<>> /\ queue' = Tail(queue)
            /\ (Head(queue)[1] \in visited_urls \/ Head(queue)[2] > max_depth)) =>
           /\ visited_urls' = visited_urls
           /\ urls_processed' = urls_processed
           /\ pdfs_found' = pdfs_found
           /\ all_pdfs' = all_pdfs
           /\ doc_log' = doc_log
      ]_vars

\* a regional crawl with max_depth = 0 has dropped two of its depth-1
\* candidates after its one fetch
DiscardsWitness ==
    /\ kind = "regional" /\ max_depth = 0 /\ pc = "loop"
    /\ Len(starting_urls) = 1 /\ Len(fetch_log) = 1
    /\ Len(queue) = Min(StateUrlLimit, NumStateUrls) - 2
    /\ urls_processed = 1

\* C29: a URL is fetched at the smallest depth of all tasks enqueued for it:
\* no task at a smaller depth waits for a URL that is being or has been fetched
MinimalVisitDepth ==
    /\ \A i \in 1..Len(fetch_log), j \in 1..Len(queue) :
           queue[j][1] = fetch_log[i][1] => fetch_log[i][2] <= queue[j][2]
    /\ cur # <<>> =>
           \A j \in 1..Len(queue) : queue[j][1] = cur[1] => cur[2] <= queue[j][2]

\* a URL fetched at depth 0 has another task waiting at depth 1
MinimalVisitDepthWitness ==
    \E i \in 1..Len(fetch_log), j \in 1..Len(queue) :
        queue[j][1] = fetch_log[i][1] /\ fetch_log[i][2] < queue[j][2]

\* C30: the urls_processed a regional crawl returns is the number of fetch
\* attempts it made
ProcessedEqualsFetched ==
    (Returned /\ kind = "regional") => result[1].urls_processed = Len(fetch_log)

\* C24: a driver.get that follows another one of the same crawl is issued
\* after a sleep
PoliteDelay == (pc = "fetch" /\ fetch_log # <<>>) => slept

\* the state tags of the pages a crawl fetched
PageStates(pages) ==
    UNION {StateTags(pages[i].url, pages[i].text) : i \in 1..Len(pages)}

\* the state tags of the documents a crawl discovered
DocumentStates(report) == {p[1] : p \in report.regional_pdfs}

CompletenessRatio ==
    Applied("discover_regional_content_bfs") =>
        /\ ret[1].regional_completeness.num * 51 =
               Cardinality(ret[1].state_coverage) * ret[1].regional_completeness.den
        /\ ret[1].regional_completeness.num <= ret[1].regional_completeness.den

\* the HEAD request for a URL answered with a status in 200..399
Alive(head, url) == \E p \in head : p[1] = url /\ p[2] \in 200..399

\* C28: every seed that portal discovery returns answered its HEAD request
\* with a status in 200..399
SeedValidation ==
    (\/ Applied("discover_provider_portal")
     \/ Applied("discover_provider_portals")
     \/ Applied("quick_payer_test")) =>
        \A i \in 1..Len(ret[1]) : Alive(call[1].head, ret[1][i])

====
